---- MODULE Spec2Model ----
(***************************************************************************)
(* Model of the CSV query tool (core/csv_processor.py, main.py).           *)
(*                                                                         *)
(* A Python str is a sequence of one-character strings, so that strip,     *)
(* find, split, lower and float() are computed character by character.     *)
(* None is the one-element sequence <<"None">>, which no str equals        *)
(* because every element of a str is a single character.                   *)
(***************************************************************************)
EXTENDS Integers, Sequences, FiniteSets, TLC

VARIABLES
    pc,      \* position of the caller: "start", "loaded", "done" or "again"
    file,    \* the CSV file load_data read (NoFile before, and when it is missing)
    data,    \* DataProcessor._data
    op,      \* the operation called last
    arg,     \* its string argument
    passed,  \* the row list given to aggregate_data or sort_data, as it was at the call
    rows,    \* that list after the call
    ret      \* what the call returned or raised

vars == <<pc, file, data, op, arg, passed, rows, ret>>

\* ------------------------------------------------------------------ bounds
\* longest condition string drawn over CondChars
MaxLen == 4
\* largest number of pieces concatenated into an aggregation string
MaxPieces == 4
\* largest number of lines after the header of a file
MaxLines == 2

\* ------------------------------------------------------------ Python values
None == <<"None">>

\* str.isspace() on the characters of the model
IsSpace(c) == c \in {" ", "\t"}

Max(a, b) == IF a >= b THEN a ELSE b

\* s[i:] of Python with the 1-based index i
From(s, i) == SubSeq(s, i, Len(s))

\* str.strip(): drop leading and trailing whitespace
Strip(s) ==
    LET keep == {i \in 1..Len(s) : ~IsSpace(s[i])}
    IN  IF keep = {} THEN <<>>
        ELSE LET lo == CHOOSE i \in keep : \A j \in keep : i <= j
                 hi == CHOOSE i \in keep : \A j \in keep : i >= j
             IN  SubSeq(s, lo, hi)

\* the positions (1-based) where t occurs in s
Occurrences(s, t) ==
    {i \in 1..(Len(s) - Len(t) + 1) : SubSeq(s, i, i + Len(t) - 1) = t}

\* `t in s` for two str
Contains(s, t) == Occurrences(s, t) # {}

\* str.find(t): the first position of t in s, 1-based; 0 stands for -1
Find(s, t) ==
    IF Occurrences(s, t) = {} THEN 0
    ELSE CHOOSE i \in Occurrences(s, t) : \A j \in Occurrences(s, t) : i <= j

\* str.lower() on the letters of the model
LowerChar(c) ==
    CASE c = "A" -> "a" [] c = "V" -> "v" [] c = "G" -> "g"
      [] c = "M" -> "m" [] c = "I" -> "i" [] c = "N" -> "n"
      [] c = "X" -> "x" [] c = "C" -> "c" [] c = "D" -> "d"
      [] c = "E" -> "e" [] c = "S" -> "s" [] OTHER -> c

Lower(s) == [i \in 1..Len(s) |-> LowerChar(s[i])]

\* a raised exception and its message: the sentence, the text interpolated
\* in quotes (None when the sentence has none) and the tokens it enumerates
Raise(type, text, shown, listed) ==
    [kind |-> "error", type |-> type,
     msg |-> [text |-> text, shown |-> shown, listed |-> listed]]

\* ----------------------------------------------------------- FilterOperator
\* the enum members in definition order, by value
FilterOperator == << <<"=">>, <<">">>, <<"<">> >>

FilterOperatorName(v) ==
    CASE v = <<"=">> -> "EQUAL" [] v = <<">">> -> "GREATER" [] v = <<"<">> -> "LESS"

\* ----------------------------------------------------- AggregationOperation
AggregationOperation == << <<"a", "v", "g">>, <<"m", "i", "n">>, <<"m", "a", "x">> >>

AggregationOperationName(v) ==
    CASE v = <<"a", "v", "g">> -> "AVG"
      [] v = <<"m", "i", "n">> -> "MIN"
      [] v = <<"m", "a", "x">> -> "MAX"

SeqToSet(q) == {q[i] : i \in 1..Len(q)}

\* -------------------------------------------- FilterCondition.from_string
\* mutant: the list without ==
invalid_operators_NoDoubleEq ==
    << <<"<", ">">>, <<"!", "=">>, <<"<", "=">>, <<">", "=">> >>

invalid_operators ==
    << <<"<", ">">>, <<"!", "=">>, <<"<", "=">>, <<">", "=">>, <<"=", "=">> >>

\* the first element of the list q that occurs in s (the for loop with raise)
FirstContained(q, s) ==
    q[CHOOSE i \in 1..Len(q) :
        /\ Contains(s, q[i])
        /\ \A j \in 1..(i - 1) : ~Contains(s, q[j])]

RECURSIVE ByLenDesc(_, _)
\* sorted(q, key=len, reverse=True): stable, so equal lengths keep list order
ByLenDesc(q, n) ==
    IF n = 0 THEN <<>>
    ELSE SelectSeq(q, LAMBDA t : Len(t) = n) \o ByLenDesc(q, n - 1)

SortedByLenDesc(q) ==
    LET longest == CHOOSE n \in {Len(q[i]) : i \in 1..Len(q)} :
                       \A i \in 1..Len(q) : Len(q[i]) <= n
    IN  ByLenDesc(q, longest)

\* mutant: the operator that stands first in the condition
SplitOperator_ByPosition(s) ==
    LET ps == {i \in 1..Len(s) : <<s[i]>> \in SeqToSet(FilterOperator)}
        p  == CHOOSE i \in ps : \A j \in ps : i <= j
    IN  <<s[p]>>

\* the operator the search loop stops at: the first of the ordered
\* candidates that occurs in the condition
SplitOperator(s) == FirstContained(SortedByLenDesc(FilterOperator), s)

\* mutant: only `not condition_str`
IsEmptyCondition_NoStrip(condition_str) ==
    condition_str = None \/ condition_str = <<>>

\* `not condition_str or not condition_str.strip()`
IsEmptyCondition(condition_str) ==
    condition_str = None \/ condition_str = <<>> \/ Strip(condition_str) = <<>>

\* mutant: the slice starts at the operator
ConditionValue_KeepsOperator(s, op_str, op_pos) == Strip(From(s, op_pos))

\* condition_str[op_pos + len(op_str):].strip()
ConditionValue(s, op_str, op_pos) == Strip(From(s, op_pos + Len(op_str)))

\* mutant: the value is checked before the column
ConditionFrom_ValueFirst(column, op_str, value) ==
    IF value = <<>>
    THEN Raise("ValueError", "FilterValueMissing", None, <<>>)
    ELSE IF column = <<>>
    THEN Raise("ValueError", "FilterColumnMissing", None, <<>>)
    ELSE [kind |-> "cond", column |-> column,
          operator |-> FilterOperatorName(op_str), value |-> value]

\* the checks of the two parts and the condition built from them
ConditionFrom(column, op_str, value) ==
    IF column = <<>>
    THEN Raise("ValueError", "FilterColumnMissing", None, <<>>)
    ELSE IF value = <<>>
    THEN Raise("ValueError", "FilterValueMissing", None, <<>>)
    ELSE [kind |-> "cond", column |-> column,
          operator |-> FilterOperatorName(op_str), value |-> value]

FilterCondition_from_string(condition_str) ==
    IF IsEmptyCondition(condition_str)
    THEN [kind |-> "none"]
    ELSE
      LET s == Strip(condition_str)
          supported_operators == FilterOperator
      IN  IF \E i \in 1..Len(invalid_operators) : Contains(s, invalid_operators[i])
          THEN Raise("ValueError", "UnsupportedOperator",
                     FirstContained(invalid_operators, s), supported_operators)
          ELSE IF ~\E i \in 1..Len(supported_operators) : Contains(s, supported_operators[i])
          THEN Raise("ValueError", "NoSupportedOperator", s, supported_operators)
          ELSE
            LET op_str == SplitOperator(s)
                op_pos == Find(s, op_str)
                column == Strip(SubSeq(s, 1, op_pos - 1))
                value  == ConditionValue(s, op_str, op_pos)
            IN  ConditionFrom(column, op_str, value)

\* ------------------------------------------------- Aggregation.from_string
\* mutant: str.rsplit('=', 1)
SplitLastEq(s) ==
    LET ps == Occurrences(s, <<"=">>)
    IN  IF ps = {} THEN <<s>>
        ELSE LET p == CHOOSE i \in ps : \A j \in ps : j <= i
             IN  <<SubSeq(s, 1, p - 1), From(s, p + 1)>>

\* str.split('=', 1)
SplitFirstEq(s) ==
    LET p == Find(s, <<"=">>)
    IN  IF p = 0 THEN <<s>> ELSE <<SubSeq(s, 1, p - 1), From(s, p + 1)>>

\* mutant: 'Неподдерживаемая операция' is not among the prefixes
AggReraised_NoUnsupported(text) ==
    text \in {"InvalidAggFormat", "AggColumnMissing"}

\* mutant: 'Не указана операция' is re-raised as well
AggReraised_AlsoOperationMissing(text) ==
    text \in {"InvalidAggFormat", "AggColumnMissing", "UnsupportedAggOperation",
              "AggOperationMissing"}

\* the messages the outer `except ValueError` re-raises unchanged: those that
\* start with 'Неверный формат', 'Не указано' or 'Неподдерживаемая операция'
\* ('Не указана операция ...' does not start with 'Не указано')
AggReraised(text) ==
    text \in {"InvalidAggFormat", "AggColumnMissing", "UnsupportedAggOperation"}

AggWrap(agg_str, r) ==
    IF r.kind = "error" /\ ~AggReraised(r.msg.text)
    THEN Raise("ValueError", "InvalidAggFormat", agg_str, AggregationOperation)
    ELSE r

Aggregation_from_string(agg_str) ==
    IF agg_str = None \/ Strip(agg_str) = <<>>
    THEN Raise("ValueError", "EmptyAggString", None, <<>>)
    ELSE IF ~Contains(agg_str, <<"=">>)
    THEN Raise("ValueError", "InvalidAggFormat", agg_str, AggregationOperation)
    ELSE
      LET parts  == SplitFirstEq(agg_str)
          column == Strip(parts[1])
          op_str == Strip(parts[2])
      IN  AggWrap(agg_str,
            IF Len(parts) # 2
            THEN Raise("ValueError", "ExactlyOneEq", None, <<>>)
            ELSE IF column = <<>>
            THEN Raise("ValueError", "AggColumnMissing", None, <<>>)
            ELSE IF op_str = <<>>
            THEN Raise("ValueError", "AggOperationMissing", None, AggregationOperation)
            ELSE IF Lower(op_str) \notin SeqToSet(AggregationOperation)
            THEN Raise("ValueError", "UnsupportedAggOperation", op_str, AggregationOperation)
            ELSE [kind |-> "agg", column |-> column,
                  operation |-> AggregationOperationName(Lower(op_str))])

\* ------------------------------------------------------------------ float
\* A Python float is NaN or a finite value num/den, kept exact (den is a power
\* of ten after float(), and a multiple of one after a division); NoFloat
\* stands for "no float": float() raised, or get_numeric returned None.
\* float() is modelled on decimal literals and nan, the numeric tokens of
\* the model's cells and values.
NoFloat == [cls |-> "none"]

NaN == [cls |-> "nan"]

Fin(num, den) == [cls |-> "fin", num |-> num, den |-> den]

Digits == <<"0", "1", "2", "3", "4", "5", "6", "7", "8", "9">>

IsDigit(c) == c \in SeqToSet(Digits)

DigitVal(c) == (CHOOSE i \in 1..Len(Digits) : Digits[i] = c) - 1

RECURSIVE Pow10(_)
Pow10(n) == IF n = 0 THEN 1 ELSE 10 * Pow10(n - 1)

RECURSIVE DigitsValue(_)
DigitsValue(s) ==
    IF s = <<>> THEN 0
    ELSE 10 * DigitsValue(SubSeq(s, 1, Len(s) - 1)) + DigitVal(s[Len(s)])

\* float(s) for a str s: surrounding whitespace is ignored, then an optional
\* sign and either nan (any case) or digits with at most one point
ParseFloat(s) ==
    LET t      == Strip(s)
        signed == t # <<>> /\ t[1] \in {"-", "+"}
        body   == IF signed THEN Tail(t) ELSE t
        sgn    == IF signed /\ t[1] = "-" THEN -1 ELSE 1
        dots   == {i \in 1..Len(body) : body[i] = "."}
        digs   == SelectSeq(body, IsDigit)
    IN  IF Lower(body) = <<"n", "a", "n">> THEN NaN
        ELSE IF /\ digs # <<>>
                /\ Cardinality(dots) <= 1
                /\ \A i \in 1..Len(body) : IsDigit(body[i]) \/ body[i] = "."
        THEN LET frac == IF dots = {} THEN 0
                         ELSE Len(body) - (CHOOSE i \in dots : TRUE)
             IN  Fin(sgn * DigitsValue(digs), Pow10(frac))
        ELSE NoFloat

\* x < y on floats: false as soon as one side is NaN
NumLess(x, y) ==
    /\ x.cls = "fin"
    /\ y.cls = "fin"
    /\ x.num * y.den < y.num * x.den

Abs(n) == IF n < 0 THEN -n ELSE n

\* 1 / 1e-9
EpsInv == 1000000000

\* abs(x - y) < 1e-9: with d / D the exact difference, d * EpsInv < D
AbsDiffBelowEps(x, y) ==
    /\ x.cls = "fin"
    /\ y.cls = "fin"
    /\ LET d == Abs(x.num * y.den - y.num * x.den)
           D == x.den * y.den
       IN  d < (D + EpsInv - 1) \div EpsInv

\* x + y as floats
NumAdd(x, y) ==
    IF x.cls # "fin" \/ y.cls # "fin" THEN NaN
    ELSE LET D == Max(x.den, y.den)
         IN  Fin(x.num * (D \div x.den) + y.num * (D \div y.den), D)

\* ------------------------------------------------------------- str order
CodePoint(c) ==
    CASE c = "\t" -> 9  [] c = " " -> 32 [] c = "!" -> 33 [] c = "+" -> 43
      [] c = "-" -> 45  [] c = "." -> 46
      [] c = "0" -> 48  [] c = "1" -> 49 [] c = "2" -> 50 [] c = "3" -> 51
      [] c = "4" -> 52  [] c = "5" -> 53 [] c = "6" -> 54 [] c = "7" -> 55
      [] c = "8" -> 56  [] c = "9" -> 57
      [] c = "<" -> 60  [] c = "=" -> 61 [] c = ">" -> 62
      [] c = "A" -> 65  [] c = "C" -> 67 [] c = "G" -> 71 [] c = "I" -> 73
      [] c = "M" -> 77  [] c = "N" -> 78 [] c = "V" -> 86 [] c = "X" -> 88
      [] c = "a" -> 97  [] c = "b" -> 98 [] c = "c" -> 99 [] c = "g" -> 103
      [] c = "i" -> 105 [] c = "k" -> 107 [] c = "m" -> 109 [] c = "n" -> 110
      [] c = "s" -> 115 [] c = "u" -> 117 [] c = "v" -> 118 [] c = "x" -> 120
      [] c = "z" -> 122

\* s < t on str: by code point at the first difference, a proper prefix first
StrLess(s, t) ==
    \E k \in 0..Len(s) :
        /\ k <= Len(t)
        /\ SubSeq(s, 1, k) = SubSeq(t, 1, k)
        /\ \/ k = Len(s) /\ k < Len(t)
           \/ k < Len(s) /\ k < Len(t) /\ CodePoint(s[k + 1]) < CodePoint(t[k + 1])

\* ------------------------------------------------------------- comparisons
\* mutant: EQUAL compares with >=
compare_numeric_GreaterOrEqual(value, operator, other) ==
    CASE operator = "EQUAL"   -> NumLess(other, value) \/ AbsDiffBelowEps(value, other)
      [] operator = "GREATER" -> NumLess(other, value)
      [] operator = "LESS"    -> NumLess(value, other)
      [] OTHER                -> FALSE

\* mutant: LESS compares with <=
compare_numeric_LessOrEqual(value, operator, other) ==
    CASE operator = "EQUAL"   -> AbsDiffBelowEps(value, other)
      [] operator = "GREATER" -> NumLess(other, value)
      [] operator = "LESS"    -> NumLess(value, other) \/ AbsDiffBelowEps(value, other)
      [] OTHER                -> FALSE

\* DataProcessor._compare_numeric
compare_numeric(value, operator, other) ==
    CASE operator = "EQUAL"   -> AbsDiffBelowEps(value, other)
      [] operator = "GREATER" -> NumLess(other, value)
      [] operator = "LESS"    -> NumLess(value, other)
      [] OTHER                -> FALSE

\* DataProcessor._compare_strings
\* mutant: a None cell is compared as the empty string
compare_strings_NullAsEmpty(value, operator, other) ==
    LET text == IF value = None THEN <<>> ELSE value
    IN  CASE operator = "EQUAL"   -> text = other
          [] operator = "GREATER" -> StrLess(other, text)
          [] operator = "LESS"    -> StrLess(text, other)
          [] OTHER                -> FALSE

compare_strings(value, operator, other) ==
    IF value = None THEN FALSE
    ELSE CASE operator = "EQUAL"   -> value = other
           [] operator = "GREATER" -> StrLess(other, value)
           [] operator = "LESS"    -> StrLess(value, other)
           [] OTHER                -> FALSE

\* ----------------------------------------------------------------- DataRow
\* A row is a function from its keys to its cells; a cell is a str or None.
\* mutant: the empty cell is the number 0.0
get_numeric_EmptyAsZero(row, key) ==
    IF key \notin DOMAIN row THEN NoFloat
    ELSE IF row[key] = None THEN NoFloat
    ELSE IF row[key] = <<>> THEN Fin(0, 1)
    ELSE ParseFloat(row[key])

\* DataRow.get_numeric
get_numeric(row, key) ==
    IF key \notin DOMAIN row THEN NoFloat
    ELSE IF row[key] = None THEN NoFloat
    ELSE ParseFloat(row[key])

\* ------------------------------------------------------------ load_data
\* A file is its header and the lines after it, each already split into
\* fields by csv.reader; a blank line is the empty list of fields.
NoFile == [exists |-> FALSE]

\* csv.DictReader's restkey and restval defaults
RestKey == None

RestVal == None

\* mutant: a line shorter than the header gets no restval, the columns it has
\* no field for are not keys of its dict
DictRow_NoRestVal(fieldnames, row) ==
    LET lf   == Len(fieldnames)
        lr   == Len(row)
        keys == {fieldnames[i] : i \in {j \in 1..lf : j <= lr}}
                  \cup (IF lf < lr THEN {RestKey} ELSE {})
        at(k) == {i \in 1..lf : fieldnames[i] = k /\ i <= lr}
    IN  [k \in keys |->
            IF k = RestKey /\ lf < lr
            THEN SubSeq(row, lf + 1, lr)
            ELSE row[CHOOSE i \in at(k) : \A j \in at(k) : j <= i]]

\* the dict csv.DictReader builds from one line: dict(zip(fieldnames, row)),
\* then the surplus fields under restkey or restval for the missing ones
DictRow(fieldnames, row) ==
    LET lf   == Len(fieldnames)
        lr   == Len(row)
        keys == SeqToSet(fieldnames) \cup (IF lf < lr THEN {RestKey} ELSE {})
        at(k) == {i \in 1..lf : fieldnames[i] = k /\ i <= lr}
    IN  [k \in keys |->
            IF k = RestKey /\ lf < lr
            THEN SubSeq(row, lf + 1, lr)
            ELSE IF at(k) = {} THEN RestVal
            ELSE row[CHOOSE i \in at(k) : \A j \in at(k) : j <= i]]

RECURSIVE DictRows(_, _)
\* the rows of the reader: blank lines are skipped
DictRows(fieldnames, lines) ==
    IF lines = <<>> THEN <<>>
    ELSE IF Head(lines) = <<>> THEN DictRows(fieldnames, Tail(lines))
    ELSE <<DictRow(fieldnames, Head(lines))>> \o DictRows(fieldnames, Tail(lines))

\* DataProcessor.load_data: the new _data, or the exception
load_data(f) ==
    IF ~f.exists
    THEN Raise("FileNotFoundError", "FileNotFound", None, <<>>)
    ELSE [kind |-> "rows", rows |-> DictRows(f.header, f.lines)]

\* ------------------------------------------------------ column-not-found
RECURSIVE SortedStrings(_)
\* sorted(S) for a set of str
SortedStrings(S) ==
    IF S = {} THEN <<>>
    ELSE LET least == CHOOSE s \in S : \A t \in S : ~StrLess(t, s)
         IN  <<least>> \o SortedStrings(S \ {least})

\* the raise of the column check: when the first row has the overflow key
\* None, sorted() and join() raise TypeError on it while the message is built,
\* and the `except Exception` clause raises the "unexpected error" instead
ColumnNotFound(column, available_columns, unexpected) ==
    IF None \in available_columns
    THEN Raise("ValueError", unexpected, None, <<>>)
    ELSE Raise("ValueError", "ColumnNotFound", column, SortedStrings(available_columns))

\* -------------------------------------------------------------- filter_data
\* mutant: the cell is always compared as text
RowMatches_TextOnly(row, filter_cond) ==
    IF filter_cond.column \notin DOMAIN row THEN FALSE
    ELSE compare_strings(row[filter_cond.column], filter_cond.operator, filter_cond.value)

\* mutant: a cell that parses is never compared as text, whatever the value
RowMatches_NumericCellNeverText(row, filter_cond) ==
    IF filter_cond.column \notin DOMAIN row THEN FALSE
    ELSE LET cell_value == row[filter_cond.column]
             num_value  == get_numeric(row, filter_cond.column)
             filter_num == ParseFloat(filter_cond.value)
         IN  IF num_value # NoFloat
             THEN /\ filter_num # NoFloat
                  /\ compare_numeric(num_value, filter_cond.operator, filter_num)
             ELSE compare_strings(cell_value, filter_cond.operator, filter_cond.value)

\* one turn of the row loop: TRUE when the row is appended to the result
RowMatches(row, filter_cond) ==
    IF filter_cond.column \notin DOMAIN row THEN FALSE
    ELSE LET cell_value == row[filter_cond.column]
             num_value  == get_numeric(row, filter_cond.column)
             filter_num == ParseFloat(filter_cond.value)
         IN  IF num_value # NoFloat /\ filter_num # NoFloat
             THEN compare_numeric(num_value, filter_cond.operator, filter_num)
             ELSE compare_strings(cell_value, filter_cond.operator, filter_cond.value)

\* str.isdigit() of first_value.strip().replace('.', '', 1)
LooksNumeric(first_value) ==
    LET t    == Strip(first_value)
        dots == {i \in 1..Len(t) : t[i] = "."}
        rest == IF dots = {} THEN t
                ELSE LET p == CHOOSE i \in dots : \A j \in dots : i <= j
                     IN  SubSeq(t, 1, p - 1) \o From(t, p + 1)
    IN  rest # <<>> /\ \A i \in 1..Len(rest) : IsDigit(rest[i])

\* the block after the loop; its guard `not has_matches and result` never
\* holds, since has_matches is set with every append
AfterLoop(d, filter_cond, result, has_matches) ==
    LET with == SelectSeq(d, LAMBDA r : filter_cond.column \in DOMAIN r)
        first_value == IF with = <<>> THEN <<>> ELSE with[1][filter_cond.column]
    IN  IF /\ ~has_matches
           /\ result # <<>>
           /\ first_value # None
           /\ first_value # <<>>
           /\ ~LooksNumeric(first_value)
           /\ filter_cond.operator # "EQUAL"
        THEN <<>>
        ELSE result

RECURSIVE Reversed(_)
Reversed(q) == IF q = <<>> THEN <<>> ELSE Append(Reversed(Tail(q)), Head(q))

\* mutant: each matching row is put in front of the result
MatchingRows_Reversed(d, filter_cond) ==
    Reversed(SelectSeq(d, LAMBDA r : RowMatches(r, filter_cond)))

\* the rows the loop appends, in dataset order
MatchingRows(d, filter_cond) == SelectSeq(d, LAMBDA r : RowMatches(r, filter_cond))

\* mutant: the copy loses the first row
AllRows_DropFirst(d) == IF d = <<>> THEN d ELSE Tail(d)

\* self._data.copy(), the result for an absent condition
AllRows(d) == d

filter_data(d, condition) ==
    IF IsEmptyCondition(condition)
    THEN [kind |-> "rows", rows |-> AllRows(d)]
    ELSE
      LET filter_cond == FilterCondition_from_string(condition)
      IN  IF filter_cond.kind = "error" THEN filter_cond
          ELSE IF filter_cond.kind = "none"
          THEN Raise("ValueError", "UnexpectedFilterError", None, <<>>)
          ELSE IF d = <<>> THEN [kind |-> "rows", rows |-> <<>>]
          ELSE IF filter_cond.column \notin DOMAIN d[1]
          THEN ColumnNotFound(filter_cond.column, DOMAIN d[1], "UnexpectedFilterError")
          ELSE LET result == MatchingRows(d, filter_cond)
               IN  [kind |-> "rows",
                    rows |-> AfterLoop(d, filter_cond, result, result # <<>>)]

\* ----------------------------------------------------------- aggregate_data
RECURSIVE NumericValues_BlankAsZero(_, _)
\* mutant: an empty or whitespace-only cell counts as 0.0
NumericValues_BlankAsZero(rs, column) ==
    IF rs = <<>> THEN <<>>
    ELSE LET row  == Head(rs)
             rest == NumericValues_BlankAsZero(Tail(rs), column)
         IN  IF column \notin DOMAIN row THEN rest
             ELSE IF row[column] = None THEN rest
             ELSE IF Strip(row[column]) = <<>> THEN <<Fin(0, 1)>> \o rest
             ELSE IF ParseFloat(row[column]) = NoFloat THEN rest
             ELSE <<ParseFloat(row[column])>> \o rest

RECURSIVE NumericValues_UnparsedAsZero(_, _)
\* mutant: a cell that does not parse counts as 0.0
NumericValues_UnparsedAsZero(rs, column) ==
    IF rs = <<>> THEN <<>>
    ELSE LET row  == Head(rs)
             rest == NumericValues_UnparsedAsZero(Tail(rs), column)
         IN  IF column \notin DOMAIN row THEN rest
             ELSE IF row[column] = None \/ Strip(row[column]) = <<>> THEN rest
             ELSE IF ParseFloat(row[column]) = NoFloat THEN <<Fin(0, 1)>> \o rest
             ELSE <<ParseFloat(row[column])>> \o rest

RECURSIVE NumericValues(_, _)
\* the list `values`: float(cell) of every row that has the column and whose
\* cell is not None, not blank and parses
NumericValues(rs, column) ==
    IF rs = <<>> THEN <<>>
    ELSE LET row  == Head(rs)
             rest == NumericValues(Tail(rs), column)
         IN  IF column \notin DOMAIN row THEN rest
             ELSE IF row[column] = None \/ Strip(row[column]) = <<>> THEN rest
             ELSE IF ParseFloat(row[column]) = NoFloat THEN rest
             ELSE <<ParseFloat(row[column])>> \o rest

RECURSIVE SumOf(_)
\* sum(values), summed from the left
SumOf(values) ==
    IF values = <<>> THEN Fin(0, 1)
    ELSE NumAdd(SumOf(SubSeq(values, 1, Len(values) - 1)), values[Len(values)])

RECURSIVE MinOf(_)
\* min(values): the running minimum is replaced when a value is less than it
MinOf(values) ==
    IF Len(values) = 1 THEN values[1]
    ELSE LET m == MinOf(SubSeq(values, 1, Len(values) - 1))
             x == values[Len(values)]
         IN  IF NumLess(x, m) THEN x ELSE m

RECURSIVE MaxOf(_)
\* max(values): the running maximum is replaced when a value is greater
MaxOf(values) ==
    IF Len(values) = 1 THEN values[1]
    ELSE LET m == MaxOf(SubSeq(values, 1, Len(values) - 1))
             x == values[Len(values)]
         IN  IF NumLess(m, x) THEN x ELSE m

\* mutant: sum(values) // len(values)
AvgOf_FloorDivision(values) ==
    LET s == SumOf(values)
    IN  IF s.cls # "fin" THEN NaN ELSE Fin(s.num \div (s.den * Len(values)), 1)

\* sum(values) / len(values)
AvgOf(values) ==
    LET s == SumOf(values)
    IN  IF s.cls # "fin" THEN NaN ELSE Fin(s.num, s.den * Len(values))

AggregationOperationValue(name) ==
    CASE name = "AVG" -> <<"a", "v", "g">>
      [] name = "MIN" -> <<"m", "i", "n">>
      [] name = "MAX" -> <<"m", "a", "x">>

aggregate_data(rs, aggregation) ==
    IF rs = <<>> THEN [kind |-> "none"]
    ELSE
      LET agg == Aggregation_from_string(aggregation)
      IN  IF agg.kind = "error" THEN agg
          ELSE IF agg.column \notin DOMAIN rs[1]
          THEN ColumnNotFound(agg.column, DOMAIN rs[1], "UnexpectedAggregationError")
          ELSE LET values == NumericValues(rs, agg.column)
               IN  IF values = <<>> THEN [kind |-> "none"]
                   ELSE [kind |-> "result",
                         operation |-> AggregationOperationValue(agg.operation),
                         column |-> agg.column,
                         count |-> Len(values),
                         value |-> CASE agg.operation = "AVG" -> AvgOf(values)
                                     [] agg.operation = "MIN" -> MinOf(values)
                                     [] agg.operation = "MAX" -> MaxOf(values)]

\* ------------------------------------------------------------------ sort_data
\* DataProcessor.sort_data is called by main and by the tests; its body is
\* written here from the sort grammar and the sort engine of the specification.
SortDirection == << <<"a", "s", "c">>, <<"d", "e", "s", "c">> >>

SortDirectionName(token) ==
    CASE token = <<"a", "s", "c">> -> "ASC"
      [] token = <<"d", "e", "s", "c">> -> "DESC"

\* mutant: a direction that is not desc sorts ascending
SortSpec_from_string_DefaultsToAsc(sort_str) ==
    IF sort_str = None \/ Strip(sort_str) = <<>>
    THEN Raise("ValueError", "EmptySortString", None, <<>>)
    ELSE IF ~Contains(sort_str, <<"=">>)
    THEN Raise("ValueError", "InvalidSortFormat", sort_str, SortDirection)
    ELSE
      LET parts     == SplitFirstEq(sort_str)
          column    == Strip(parts[1])
          direction == Strip(parts[2])
      IN  IF column = <<>>
          THEN Raise("ValueError", "SortColumnMissing", None, <<>>)
          ELSE [kind |-> "sort",
                column |-> column,
                direction |-> IF Lower(direction) = <<"d", "e", "s", "c">>
                              THEN "DESC" ELSE "ASC"]

\* the sort grammar <column>=<direction>, split at the first = as an
\* aggregation is; empty input is an error
SortSpec_from_string(sort_str) ==
    IF sort_str = None \/ Strip(sort_str) = <<>>
    THEN Raise("ValueError", "EmptySortString", None, <<>>)
    ELSE IF ~Contains(sort_str, <<"=">>)
    THEN Raise("ValueError", "InvalidSortFormat", sort_str, SortDirection)
    ELSE
      LET parts     == SplitFirstEq(sort_str)
          column    == Strip(parts[1])
          direction == Strip(parts[2])
      IN  IF column = <<>>
          THEN Raise("ValueError", "SortColumnMissing", None, <<>>)
          ELSE IF Lower(direction) \notin SeqToSet(SortDirection)
          THEN Raise("ValueError", "UnsupportedSortDirection", direction, SortDirection)
          ELSE [kind |-> "sort",
                column |-> column,
                direction |-> SortDirectionName(Lower(direction))]

\* the cell of a row in a column; a row without the column counts as null
SortCell(row, column) == IF column \in DOMAIN row THEN row[column] ELSE None

\* a cell with no value: null, empty or whitespace only
SortCellMissing(cell) == cell = None \/ Strip(cell) = <<>>

\* mutant: every column is ordered as text
SortsAsNumbers_Never(rs, column) == FALSE

\* the column's values are numeric-parseable: every cell that has a value
\* parses as a number that can be ordered, and at least one cell has a value
SortsAsNumbers(rs, column) ==
    /\ \E i \in 1..Len(rs) : ~SortCellMissing(SortCell(rs[i], column))
    /\ \A i \in 1..Len(rs) :
          \/ SortCellMissing(SortCell(rs[i], column))
          \/ ParseFloat(SortCell(rs[i], column)).cls = "fin"

\* the ordering key of a row: the number, 0.0 for a missing one; or the
\* lower-cased text, the empty string for null
SortKey(row, column, numeric) ==
    LET cell == SortCell(row, column)
    IN  IF numeric
        THEN IF SortCellMissing(cell) THEN Fin(0, 1) ELSE ParseFloat(cell)
        ELSE IF cell = None THEN <<>> ELSE Lower(cell)

\* the ascending comparator on keys
SortKeyLess(x, y, numeric) == IF numeric THEN NumLess(x, y) ELSE StrLess(x, y)

\* row x goes before row y: the ascending comparator, reversed for DESC
SortsBefore(x, y, column, numeric, direction) ==
    LET kx == SortKey(x, column, numeric)
        ky == SortKey(y, column, numeric)
    IN  IF direction = "DESC"
        THEN SortKeyLess(ky, kx, numeric)
        ELSE SortKeyLess(kx, ky, numeric)

RECURSIVE SortInsert_BeforeTies(_, _, _, _, _)
\* mutant: x is put in front of the rows it ties with
SortInsert_BeforeTies(s, x, column, numeric, direction) ==
    IF s = <<>> THEN <<x>>
    ELSE IF ~SortsBefore(Head(s), x, column, numeric, direction) THEN <<x>> \o s
    ELSE <<Head(s)>> \o SortInsert_BeforeTies(Tail(s), x, column, numeric, direction)

RECURSIVE SortInsert(_, _, _, _, _)
\* x put into the ordered list s behind every row it does not go before, so
\* that ties keep the order in which they came
SortInsert(s, x, column, numeric, direction) ==
    IF s = <<>> THEN <<x>>
    ELSE IF SortsBefore(x, Head(s), column, numeric, direction) THEN <<x>> \o s
    ELSE <<Head(s)>> \o SortInsert(Tail(s), x, column, numeric, direction)

RECURSIVE SortedRows(_, _, _, _)
\* the stable sort of rs
SortedRows(rs, column, numeric, direction) ==
    IF rs = <<>> THEN <<>>
    ELSE SortInsert(SortedRows(SubSeq(rs, 1, Len(rs) - 1), column, numeric, direction),
                    rs[Len(rs)], column, numeric, direction)

\* mutant: an unknown column gives an empty result
SortColumnNotFound_EmptyResult(column, columns) == [kind |-> "rows", rows |-> <<>>]

\* the error for a column that is not in the dataset's column set: the named
\* columns sorted, without the overflow key
SortColumnNotFound(column, columns) ==
    Raise("ValueError", "ColumnNotFound", column, SortedStrings(columns \ {RestKey}))

sort_data(rs, order_by) ==
    LET sort_spec == SortSpec_from_string(order_by)
    IN  IF sort_spec.kind = "error" THEN sort_spec
        ELSE IF rs = <<>> THEN [kind |-> "rows", rows |-> <<>>]
        ELSE IF sort_spec.column \notin DOMAIN rs[1] \ {RestKey}
        THEN SortColumnNotFound(sort_spec.column, DOMAIN rs[1])
        ELSE [kind |-> "rows",
              rows |-> SortedRows(rs, sort_spec.column,
                                  SortsAsNumbers(rs, sort_spec.column),
                                  sort_spec.direction)]

\* ----------------------------------------------------------------------- main
\* sys.exit(code); a return from main ends the process with code 0
Exit(code) == [kind |-> "exit", code |-> code]

\* the truth value of an optional str: None and '' are false
Truthy(s) == s # None /\ s # <<>>

\* args.file when the command line has no --file
NoFileArgument == [given |-> FALSE]

\* main() for the parsed arguments args: where, aggregate and order_by are a
\* str or None, file is the file at the given path, or NoFileArgument;
\* repeated tells that an option name was given twice
main(args) ==
    IF args.repeated THEN Exit(1)
    ELSE IF args.file = NoFileArgument THEN Exit(1)
    ELSE IF ~args.file.exists THEN Exit(1)
    ELSE
      LET loaded   == load_data(args.file)
          filtered == filter_data(loaded.rows, args.where)
      IN  IF filtered.kind = "error" THEN Exit(1)
          ELSE IF Truthy(args.where) /\ filtered.rows = <<>> THEN Exit(0)
          ELSE
            LET sorted == IF Truthy(args.order_by)
                          THEN sort_data(filtered.rows, args.order_by)
                          ELSE filtered
            IN  IF sorted.kind = "error" THEN Exit(1)
                ELSE IF Truthy(args.aggregate)
                THEN IF aggregate_data(sorted.rows, args.aggregate).kind = "error"
                     THEN Exit(1)
                     ELSE Exit(0)
                ELSE Exit(0)

\* ------------------------------------------------- what the calls leave behind
\* self._data after filter_data(condition): the method reads self._data and
\* copies the rows it returns; it assigns nothing to self._data or to a row
DataAfterFilter_KeepsResult(d, condition) ==
    LET r == filter_data(d, condition)
    IN  IF r.kind = "rows" THEN r.rows ELSE d

DataAfterFilter(d, condition) == d

\* the list `data` after aggregate_data(data, aggregation): the method only
\* iterates over it and collects the numbers in a list of its own
RowsAfterAggregate(rs, aggregation) == rs

\* the list given to sort_data after the call: the sort returns a new
\* sequence and leaves its input unchanged
RowsAfterSort(rs, order_by) == rs

\* ------------------------------------------------------------------ inputs
CondChars == {"a", "1", " ", "\t", "=", ">", "<", "!"}

RECURSIVE StringsOver(_, _)
\* every string over the characters cs of length at most n
StringsOver(cs, n) ==
    IF n = 0 THEN {<<>>}
    ELSE LET shorter == StringsOver(cs, n - 1)
         IN  shorter \cup {Append(s, c) : s \in shorter, c \in cs}

AggPieces ==
    { <<" ">>, <<"a">>, <<"=">>, <<"a", "v", "g">>, <<"A", "V", "G">>,
      <<"M", "i", "n">>, <<"m", "a", "x">>, <<"s", "u", "m">> }

RECURSIVE Concatenations(_, _)
\* every concatenation of at most n of the pieces ps
Concatenations(ps, n) ==
    IF n = 0 THEN {<<>>}
    ELSE LET shorter == Concatenations(ps, n - 1)
         IN  shorter \cup {s \o p : s \in shorter, p \in ps}

\* conditions with two different operator characters and no compound token
TwoOperatorInputs ==
    { <<"a", ">", "b", "=", "c">>, <<"a", "=", "b", ">", "c">>,
      <<"a", "<", "b", ">", "c">>, <<"a", ">", "b", "<", "c">>,
      <<"a", "<", "b", "=", "c">> }

\* the strings given to the two parsers called alone
ParseInputs ==
    {None} \cup StringsOver(CondChars, MaxLen) \cup Concatenations(AggPieces, MaxPieces)
      \cup TwoOperatorInputs

\* the header of the files: column n, then column a
Header == << <<"n">>, <<"a">> >>

\* the fields of column n and of column a
FirstFields == { <<"7">>, <<"k">> }

Cells ==
    { <<>>, <<" ">>, <<"1">>, <<"1", ".", "0">>, <<"1", "0">>, <<"x">>, <<"n", "a", "n">> }

\* a line: blank, one field (column a is missing), two fields, or three
\* (one more than the header)
Lines ==
    {<<>>}
      \cup {<<i>> : i \in FirstFields}
      \cup {<<i, c>> : i \in FirstFields, c \in Cells}
      \cup {<<i, <<"1">>, <<"9">> >> : i \in FirstFields}

RECURSIVE SeqsUpTo(_, _)
\* the sequences over S of length at most n
SeqsUpTo(S, n) ==
    IF n = 0 THEN {<<>>}
    ELSE LET shorter == SeqsUpTo(S, n - 1)
         IN  shorter \cup {Append(q, x) : q \in shorter, x \in S}

Files ==
    {NoFile} \cup
    {[exists |-> TRUE, header |-> Header, lines |-> ls] : ls \in SeqsUpTo(Lines, MaxLines)}

\* the conditions given to filter_data
FilterColumns == { <<"a">>, <<"z">> }

FilterValues == { <<"1">>, <<"2">>, <<"x">>, <<"n", "a", "n">> }

FilterInputs ==
    {c \o o \o v : c \in FilterColumns, o \in SeqToSet(FilterOperator), v \in FilterValues}
      \cup { None, <<>>, <<" ", "\t">>, <<"a", "!", "=", "1">>, <<"a">>, <<"=", "1">>, <<"a", "=">> }

\* the aggregation strings given to aggregate_data
AggInputs ==
    {c \o <<"=">> \o o :
        c \in FilterColumns,
        o \in { <<"a", "v", "g">>, <<"M", "i", "n">>, <<"m", "a", "x">>, <<"s", "u", "m">> }}
      \cup { <<>>, <<"a">>, <<"a", "=">>, <<"=", "a", "v", "g">> }

\* the files sorted: column a holds numbers, text in both cases, nan, or nothing
SortCells == { <<>>, <<"2">>, <<"1", "0">>, <<"b">>, <<"X">>, <<"n", "a", "n">> }

SortLines ==
    {<<i>> : i \in FirstFields}
      \cup {<<i, c>> : i \in FirstFields, c \in SortCells}
      \cup {<< <<"k">>, <<"2">>, <<"9">> >>}

SortFiles ==
    {[exists |-> TRUE, header |-> Header, lines |-> ls] : ls \in SeqsUpTo(SortLines, MaxLines)}

\* the sort strings given to sort_data
SortInputs ==
    { <<"a", "=", "a", "s", "c">>, <<"a", "=", "d", "e", "s", "c">>,
      <<" ", "a", " ", "=", " ", "D", "E", "S", "C">>,
      <<"n", "=", "a", "s", "c">>, <<"z", "=", "a", "s", "c">>,
      <<"a", "=", "u", "p">>, <<"a", "=">>, <<"=", "a", "s", "c">>,
      <<"a">>, <<>>, <<" ">> }

\* the command lines: the file, and the three expressions or None
MainLines == { << <<"k">>, <<"1">> >>, << <<"k">>, <<"x">> >> }

MainFiles ==
    {NoFileArgument, NoFile} \cup
    {[exists |-> TRUE, header |-> Header, lines |-> ls] : ls \in SeqsUpTo(MainLines, MaxLines)}

MainWheres ==
    { None, <<>>, <<"a", "=", "1">>, <<"a", "=", "2">>, <<"z", "=", "1">>, <<"a">> }

MainOrders ==
    { None, <<>>, <<"a", "=", "a", "s", "c">>, <<"z", "=", "a", "s", "c">>,
      <<"a", "=", "u", "p">> }

MainAggregates ==
    { None, <<>>, <<"a", "=", "a", "v", "g">>, <<"z", "=", "a", "v", "g">>,
      <<"a", "=", "s", "u", "m">> }

NoRet == [kind |-> "pending"]

\* ----------------------------------------------------------------- actions
\* Each behaviour is one use of the module: a parser classmethod called on
\* its own, or a processor that loads its file and answers one query.
Init ==
    /\ pc = "start"
    /\ file = NoFile
    /\ data = <<>>
    /\ op = "none"
    /\ arg = None
    /\ passed = <<>>
    /\ rows = <<>>
    /\ ret = NoRet

CallFilterConditionFromString ==
    /\ pc = "start"
    /\ \E s \in ParseInputs :
        /\ arg' = s
        /\ ret' = FilterCondition_from_string(s)
    /\ op' = "FilterCondition.from_string"
    /\ pc' = "done"
    /\ UNCHANGED <<file, data, passed, rows>>

CallAggregationFromString ==
    /\ pc = "start"
    /\ \E s \in ParseInputs :
        /\ arg' = s
        /\ ret' = Aggregation_from_string(s)
    /\ op' = "Aggregation.from_string"
    /\ pc' = "done"
    /\ UNCHANGED <<file, data, passed, rows>>

LoadData ==
    /\ pc = "start"
    /\ \E f \in Files :
        LET r == load_data(f)
        IN  /\ file' = f
            /\ IF r.kind = "error"
               THEN /\ ret' = r
                    /\ pc' = "done"
                    /\ data' = data
               ELSE /\ ret' = [kind |-> "none"]
                    /\ pc' = "loaded"
                    /\ data' = r.rows
    /\ op' = "load_data"
    /\ UNCHANGED <<arg, passed, rows>>

FilterData ==
    /\ pc = "loaded"
    /\ \E c \in FilterInputs :
        /\ arg' = c
        /\ ret' = filter_data(data, c)
        /\ data' = DataAfterFilter(data, c)
    /\ op' = "filter_data"
    /\ pc' = "done"
    /\ UNCHANGED <<file, passed, rows>>

AggregateData ==
    /\ pc = "loaded"
    \* the list given is the processor's own self._data, or an empty list
    /\ \E own \in BOOLEAN, a \in AggInputs :
        LET rs == IF own THEN data ELSE <<>>
        IN  /\ passed' = rs
            /\ arg' = a
            /\ ret' = aggregate_data(rs, a)
            /\ rows' = RowsAfterAggregate(rs, a)
            /\ data' = IF own THEN RowsAfterAggregate(rs, a) ELSE data
    /\ op' = "aggregate_data"
    /\ pc' = "done"
    /\ UNCHANGED file

\* a processor that loads one of the files to sort
LoadSortFile ==
    /\ pc = "start"
    /\ \E f \in SortFiles :
        /\ file' = f
        /\ data' = load_data(f).rows
    /\ ret' = [kind |-> "none"]
    /\ pc' = "loaded"
    /\ op' = "load_data"
    /\ UNCHANGED <<arg, passed, rows>>

\* sort_data(self._data, order_by), as the tests call it
SortData ==
    /\ pc = "loaded"
    /\ \E o \in SortInputs :
        /\ arg' = o
        /\ ret' = sort_data(data, o)
        /\ rows' = RowsAfterSort(data, o)
        /\ data' = RowsAfterSort(data, o)
    /\ passed' = data
    /\ op' = "sort_data"
    /\ pc' = "done"
    /\ UNCHANGED file

\* the rows sort_data returned, sorted once more with the same string
SortAgain ==
    /\ pc = "done"
    /\ op = "sort_data"
    /\ ret.kind = "rows"
    /\ passed' = ret.rows
    /\ ret' = sort_data(ret.rows, arg)
    /\ rows' = RowsAfterSort(ret.rows, arg)
    /\ pc' = "again"
    /\ UNCHANGED <<file, data, op, arg>>

\* one run of the command-line program
Main ==
    /\ pc = "start"
    /\ \E f \in MainFiles, w \in MainWheres, o \in MainOrders,
          g \in MainAggregates, twice \in BOOLEAN :
        LET args == [file |-> f, where |-> w, order_by |-> o, aggregate |-> g,
                     repeated |-> twice]
        IN  /\ arg' = args
            /\ ret' = main(args)
    /\ op' = "main"
    /\ pc' = "done"
    /\ UNCHANGED <<file, data, passed, rows>>

Next ==
    \/ CallFilterConditionFromString
    \/ CallAggregationFromString
    \/ LoadData
    \/ FilterData
    \/ AggregateData

Spec == Init /\ [][Next]_vars

\* the uses of sort_data
SortNext ==
    \/ LoadSortFile
    \/ SortData
    \/ SortAgain

SortSpec == Init /\ [][SortNext]_vars

\* the runs of the command-line program
MainNext == Main

MainSpec == Init /\ [][MainNext]_vars

\* ===================================================================== claims
\* what the claims call blank: empty or whitespace only
Blank(s) == \A i \in 1..Len(s) : IsSpace(s[i])

\* the rows of a list, as a set
RowSet(rs) == {rs[i] : i \in 1..Len(rs)}

\* the value of a float is equal to, or below, the value of another
NumEqual(x, y) == x.cls = "fin" /\ y.cls = "fin" /\ x.num * y.den = y.num * x.den

NumLessOrEqual(x, y) == NumLess(x, y) \/ NumEqual(x, y)

\* the call was filter_data(c + o + v) and returned a row list
FilterCall(c, o, v) == op = "filter_data" /\ arg = c \o o \o v /\ ret.kind = "rows"

\* ------------------------------------------------------------------------ C1
\* C1: filter_data with a null, empty or whitespace-only condition returns a
\* list equal to the loaded dataset, in content and in row order.
C1_NoConditionReturnsDataset ==
    (op = "filter_data" /\ (arg = None \/ Blank(arg)))
        => (ret.kind = "rows" /\ ret.rows = data)

C1_Witness ==
    /\ op = "filter_data"
    /\ arg = <<" ", "\t">>
    /\ Len(data) = 2
    /\ data[1] # data[2]
    /\ ret.kind = "rows"
    /\ ret.rows = data

\* ------------------------------------------------------------------------ C2
\* a numeric column: each cell is null, empty or parses as a number
NumericColumn(d, c) ==
    /\ d # <<>>
    /\ c \in DOMAIN d[1]
    /\ \A i \in 1..Len(d) :
          c \in DOMAIN d[i] =>
              (d[i][c] = None \/ d[i][c] = <<>> \/ ParseFloat(d[i][c]) # NoFloat)

\* C2 as stated: in a numeric column with a numeric threshold v, every row
\* returned by "col>v" has a numeric value greater than v, every row not
\* returned lacks col, fails numeric coercion or has a numeric value <= v, and
\* every row returned by "col<v" has a numeric value less than v.
C2_AsStated ==
    \A c \in FilterColumns, v \in FilterValues :
        (NumericColumn(data, c) /\ ParseFloat(v) # NoFloat) =>
            /\ FilterCall(c, <<">">>, v) =>
                  /\ \A r \in RowSet(ret.rows) : NumLess(ParseFloat(v), get_numeric(r, c))
                  /\ \A r \in RowSet(data) \ RowSet(ret.rows) :
                        \/ c \notin DOMAIN r
                        \/ get_numeric(r, c) = NoFloat
                        \/ NumLessOrEqual(get_numeric(r, c), ParseFloat(v))
            /\ FilterCall(c, <<"<">>, v) =>
                  \A r \in RowSet(ret.rows) : NumLess(get_numeric(r, c), ParseFloat(v))

\* C2 (amended): in a numeric column with a numeric threshold v, every row
\* returned by "col>v" has a numeric value greater than v and every row not
\* returned lacks col, fails numeric coercion or has a numeric value that is
\* not greater than v (<= v, or one of the two is NaN); every row returned by
\* "col<v" has a numeric value less than v or a cell that fails numeric
\* coercion (the empty cell, compared with v as text).
C2_NumericThreshold ==
    \A c \in FilterColumns, v \in FilterValues :
        (NumericColumn(data, c) /\ ParseFloat(v) # NoFloat) =>
            /\ FilterCall(c, <<">">>, v) =>
                  /\ \A r \in RowSet(ret.rows) : NumLess(ParseFloat(v), get_numeric(r, c))
                  /\ \A r \in RowSet(data) \ RowSet(ret.rows) :
                        \/ c \notin DOMAIN r
                        \/ get_numeric(r, c) = NoFloat
                        \/ ~NumLess(ParseFloat(v), get_numeric(r, c))
            /\ FilterCall(c, <<"<">>, v) =>
                  \A r \in RowSet(ret.rows) :
                      \/ NumLess(get_numeric(r, c), ParseFloat(v))
                      \/ get_numeric(r, c) = NoFloat

C2_Witness ==
    /\ FilterCall(<<"a">>, <<"<">>, <<"2">>)
    /\ NumericColumn(data, <<"a">>)
    /\ Len(ret.rows) = 2
    /\ ret.rows[1][<<"a">>] = <<>>
    /\ ret.rows[2][<<"a">>] = <<"1">>

C4_UnknownColumnRaises ==
    (/\ op = "filter_data"
     /\ FilterCondition_from_string(arg).kind = "cond"
     /\ FilterCondition_from_string(arg).column \notin SeqToSet(file.header))
        => /\ ret.kind = "error"
           /\ ret.type = "ValueError"
           /\ ret.msg.text = "ColumnNotFound"
           /\ ret.msg.shown = FilterCondition_from_string(arg).column
           /\ ret.msg.listed = SortedStrings(SeqToSet(file.header))

\* ------------------------------------------------------------------------ C5
CompoundTokens ==
    { <<"<", ">">>, <<"!", "=">>, <<"<", "=">>, <<">", "=">>, <<"=", "=">> }

HasCompoundToken(s) == \E t \in CompoundTokens : Contains(s, t)

\* C5: FilterCondition.from_string rejects every string that contains one of
\* <>, !=, <=, >=, == anywhere, with the "unsupported operator" error naming
\* a compound token of the string, whatever column and value a split gives.
C5_CompoundTokenRejected ==
    (op = "FilterCondition.from_string" /\ arg # None /\ HasCompoundToken(arg))
        => /\ ret.kind = "error"
           /\ ret.type = "ValueError"
           /\ ret.msg.text = "UnsupportedOperator"
           /\ ret.msg.shown \in CompoundTokens
           /\ Contains(arg, ret.msg.shown)

\* the token stands in the value part, and the column part is empty
C5_Witness ==
    /\ op = "FilterCondition.from_string"
    /\ arg = <<"=", "1", "=", "=">>
    /\ ret.kind = "error"
    /\ ret.msg.text = "UnsupportedOperator"
    /\ ret.msg.shown = <<"=", "=">>

\* ------------------------------------------------------------------------ C6
OperatorChars == {"=", ">", "<"}

NoOperatorChar(s) == \A i \in 1..Len(s) : s[i] \notin OperatorChars

OperatorOf(ch) ==
    CASE ch = "=" -> "EQUAL" [] ch = ">" -> "GREATER" [] ch = "<" -> "LESS"

\* arg is c + o + v with the operator character o at position p, and c and v
\* hold no operator character and are not blank
IsColumnOpValue(s, p) ==
    /\ s[p] \in OperatorChars
    /\ NoOperatorChar(SubSeq(s, 1, p - 1))
    /\ NoOperatorChar(From(s, p + 1))
    /\ ~Blank(SubSeq(s, 1, p - 1))
    /\ ~Blank(From(s, p + 1))

ParsedAs(s, p) ==
    [kind |-> "cond", column |-> Strip(SubSeq(s, 1, p - 1)),
     operator |-> OperatorOf(s[p]), value |-> Strip(From(s, p + 1))]

\* C6 as stated: for c and v without operator character and not blank,
\* from_string(c + o + v) is {column: trim(c), operator: o, value: trim(v)}.
C6_AsStated ==
    (op = "FilterCondition.from_string" /\ arg # None) =>
        \A p \in 1..Len(arg) : IsColumnOpValue(arg, p) => ret = ParsedAs(arg, p)

\* C6 (amended): for c and v without operator character and not blank,
\* from_string(c + o + v) is {column: trim(c), operator: o, value: trim(v)}
\* unless o is = and c ends in !, which makes the compound token != (then
\* the string is rejected as an unsupported operator).
C6_ColumnOpValueRoundTrip ==
    (op = "FilterCondition.from_string" /\ arg # None) =>
        \A p \in 1..Len(arg) :
            (IsColumnOpValue(arg, p) /\ ~(arg[p] = "=" /\ arg[p - 1] = "!"))
                => ret = ParsedAs(arg, p)

C6_Witness ==
    /\ op = "FilterCondition.from_string"
    /\ arg = <<"a", " ", "<", "1">>
    /\ ret = [kind |-> "cond", column |-> <<"a">>, operator |-> "LESS", value |-> <<"1">>]

\* ------------------------------------------------------------------------ C7
\* C7: FilterCondition.from_string returns the null result, and raises
\* nothing, for every input that is None, empty or whitespace only.
C7_BlankGivesNoCondition ==
    (op = "FilterCondition.from_string" /\ (arg = None \/ Blank(arg)))
        => ret = [kind |-> "none"]

C7_Witness ==
    /\ op = "FilterCondition.from_string"
    /\ arg = <<" ", "\t", " ">>
    /\ ret = [kind |-> "none"]

\* ------------------------------------------------------------------------ C8
\* the position the string is split at: the first = if there is one,
\* otherwise the first >, otherwise the first <
FirstOf(s, ch) == CHOOSE i \in 1..Len(s) : s[i] = ch /\ \A j \in 1..(i - 1) : s[j] # ch

SplitPosition(s) ==
    IF \E i \in 1..Len(s) : s[i] = "=" THEN FirstOf(s, "=")
    ELSE IF \E i \in 1..Len(s) : s[i] = ">" THEN FirstOf(s, ">")
    ELSE FirstOf(s, "<")

\* C8: for a non-blank condition without compound token, from_string raises
\* "no supported operator found", naming the trimmed input and the set
\* =, >, <, when the string has none of them; otherwise "column name not
\* specified" when the text left of the split is blank; otherwise "comparison
\* value not specified" when the text right of it is blank.
C8_ErrorPrecedence ==
    (/\ op = "FilterCondition.from_string"
     /\ arg # None
     /\ ~Blank(arg)
     /\ ~HasCompoundToken(arg))
        => IF NoOperatorChar(arg)
           THEN ret = Raise("ValueError", "NoSupportedOperator", Strip(arg),
                            << <<"=">>, <<">">>, <<"<">> >>)
           ELSE LET p == SplitPosition(arg)
                IN  IF Blank(SubSeq(arg, 1, p - 1))
                    THEN ret.kind = "error" /\ ret.msg.text = "FilterColumnMissing"
                    ELSE IF Blank(From(arg, p + 1))
                    THEN ret.kind = "error" /\ ret.msg.text = "FilterValueMissing"
                    ELSE ret.kind = "cond"

\* column and value are both missing: the column error is the one raised
C8_Witness ==
    /\ op = "FilterCondition.from_string"
    /\ arg = <<" ", ">", " ">>
    /\ ret.kind = "error"
    /\ ret.msg.text = "FilterColumnMissing"

\* ------------------------------------------------------------------------ C9
SupportedOperations == { <<"a", "v", "g">>, <<"m", "i", "n">>, <<"m", "a", "x">> }

HasEq(s) == \E i \in 1..Len(s) : s[i] = "="

LeftOfFirstEq(s) == SubSeq(s, 1, FirstOf(s, "=") - 1)

RightOfFirstEq(s) == From(s, FirstOf(s, "=") + 1)

OperationOf(t) ==
    CASE t = <<"a", "v", "g">> -> "AVG"
      [] t = <<"m", "i", "n">> -> "MIN"
      [] t = <<"m", "a", "x">> -> "MAX"

\* C9: Aggregation.from_string succeeds exactly when the input, split at its
\* first =, has a non-blank left part and a right part that, trimmed and
\* lower-cased, is avg, min or max; it then returns the trimmed left part as
\* the column and the matching operation.
C9_AggregationGrammar ==
    (op = "Aggregation.from_string" /\ arg # None) =>
        LET valid == /\ HasEq(arg)
                     /\ ~Blank(LeftOfFirstEq(arg))
                     /\ Lower(Strip(RightOfFirstEq(arg))) \in SupportedOperations
        IN  /\ ret.kind = "agg" <=> valid
            /\ valid => ret = [kind |-> "agg",
                               column |-> Strip(LeftOfFirstEq(arg)),
                               operation |-> OperationOf(Lower(Strip(RightOfFirstEq(arg))))]
            /\ ~valid => ret.kind = "error"

\* the operation token in another case, with whitespace around the parts
C9_Witness ==
    /\ op = "Aggregation.from_string"
    /\ arg = <<" ", "a", "=", "M", "i", "n">>
    /\ ret = [kind |-> "agg", column |-> <<"a">>, operation |-> "MIN"]

\* ----------------------------------------------------------------------- C10
\* C10: Aggregation.from_string given "<column>=<token>" with a non-blank
\* column and a non-blank token that is not avg, min or max in any case
\* raises the "unsupported aggregation operation" error naming the token and
\* listing avg, min, max; aggregate_data raises the same error for such a
\* string on a non-empty row list.
C10_UnsupportedOperation ==
    (/\ \/ op = "Aggregation.from_string"
        \/ op = "aggregate_data" /\ rows # <<>>
     /\ arg # None
     /\ HasEq(arg)
     /\ ~Blank(LeftOfFirstEq(arg))
     /\ ~Blank(RightOfFirstEq(arg))
     /\ Lower(Strip(RightOfFirstEq(arg))) \notin SupportedOperations)
        => ret = Raise("ValueError", "UnsupportedAggOperation",
                       Strip(RightOfFirstEq(arg)),
                       << <<"a", "v", "g">>, <<"m", "i", "n">>, <<"m", "a", "x">> >>)

C10_Witness ==
    /\ op = "aggregate_data"
    /\ rows # <<>>
    /\ arg = <<"a", "=", "s", "u", "m">>
    /\ ret.kind = "error"
    /\ ret.msg.text = "UnsupportedAggOperation"
    /\ ret.msg.shown = <<"s", "u", "m">>

\* ----------------------------------------------------------------------- C11
\* C11: Aggregation.from_string given a blank string raises the "empty
\* aggregation string" error; given a non-blank string without = or a string
\* with a non-blank column and a blank operation ("column=") it raises the
\* "invalid aggregation format" error naming the raw input and avg, min, max;
\* given a string whose column part is blank ("=avg") it raises the "column
\* name not specified" error.
C11_MalformedAggregationClasses ==
    (op = "Aggregation.from_string") =>
        LET invalid_format ==
                Raise("ValueError", "InvalidAggFormat", arg,
                      << <<"a", "v", "g">>, <<"m", "i", "n">>, <<"m", "a", "x">> >>)
        IN  IF arg = None \/ Blank(arg)
            THEN ret = Raise("ValueError", "EmptyAggString", None, <<>>)
            ELSE IF ~HasEq(arg) THEN ret = invalid_format
            ELSE IF Blank(LeftOfFirstEq(arg))
            THEN ret = Raise("ValueError", "AggColumnMissing", None, <<>>)
            ELSE Blank(RightOfFirstEq(arg)) => ret = invalid_format

\* "column=" with whitespace around it: the message shows the input untrimmed
C11_Witness ==
    /\ op = "Aggregation.from_string"
    /\ arg = <<" ", "a", "=", " ">>
    /\ ret.kind = "error"
    /\ ret.msg.text = "InvalidAggFormat"
    /\ ret.msg.shown = <<" ", "a", "=", " ">>

\* ----------------------------------------------------------------------- C12
\* C12: every error FilterCondition.from_string or Aggregation.from_string
\* raises for a string carries a message that shows the raw input, as it was
\* given, and lists the supported tokens (=, >, < for a condition; avg, min,
\* max for an aggregation).
C12_MessageShowsInputAndTokens ==
    (/\ op \in {"FilterCondition.from_string", "Aggregation.from_string"}
     /\ arg # None
     /\ ret.kind = "error")
        => /\ ret.msg.shown # None
           /\ Contains(ret.msg.shown, arg)
           /\ SeqToSet(ret.msg.listed) =
                  IF op = "FilterCondition.from_string"
                  THEN {<<"=">>, <<">">>, <<"<">>}
                  ELSE SupportedOperations

\* ----------------------------------------------------------------------- C13
\* the call was aggregate_data(passed, "<c>=<operation name>") with a
\* well-formed string, a non-empty row list and c a key of its first row
AggregateCall(c, name) ==
    /\ op = "aggregate_data"
    /\ arg # None
    /\ HasEq(arg)
    /\ Strip(LeftOfFirstEq(arg)) = c
    /\ Lower(Strip(RightOfFirstEq(arg))) \in SupportedOperations
    /\ OperationOf(Lower(Strip(RightOfFirstEq(arg)))) = name
    /\ passed # <<>>
    /\ c \in DOMAIN passed[1]

\* the rows of rs whose cell in column c parses as a number, by index
NumericCells(rs, c) ==
    {i \in 1..Len(rs) :
        c \in DOMAIN rs[i] /\ rs[i][c] # None /\ ParseFloat(rs[i][c]) # NoFloat}

\* the number in the cell of row i
CellNumber(rs, c, i) == ParseFloat(rs[i][c])

\* the same float: both NaN, or equal in value
SameFloat(x, y) == (x.cls = "nan" /\ y.cls = "nan") \/ NumEqual(x, y)

\* x is the least (greatest) of the numbers in the cells I of column c: one
\* of them, and the same as or below (above) each of them
LeastOf(x, rs, c, I) ==
    /\ \E i \in I : SameFloat(x, CellNumber(rs, c, i))
    /\ \A i \in I : SameFloat(x, CellNumber(rs, c, i)) \/ NumLess(x, CellNumber(rs, c, i))

GreatestOf(x, rs, c, I) ==
    /\ \E i \in I : SameFloat(x, CellNumber(rs, c, i))
    /\ \A i \in I : SameFloat(x, CellNumber(rs, c, i)) \/ NumLess(CellNumber(rs, c, i), x)

\* the call did not fail, and counted exactly the cells that parse
CountsNumericCells(c) ==
    /\ ret.kind # "error"
    /\ NumericCells(passed, c) # {} =>
          (ret.kind = "result" /\ ret.count = Cardinality(NumericCells(passed, c)))

\* C13 as stated: count is the number of cells that parse, and value is their
\* minimum for min and their maximum for max.
C13_AsStated ==
    \A c \in FilterColumns, name \in {"MIN", "MAX"} :
        AggregateCall(c, name) =>
            LET I == NumericCells(passed, c)
            IN  /\ CountsNumericCells(c)
                /\ (I # {} /\ name = "MIN") => LeastOf(ret.value, passed, c, I)
                /\ (I # {} /\ name = "MAX") => GreatestOf(ret.value, passed, c, I)

\* C13: for a valid aggregation on a column of the first row, aggregate_data
\* does not fail on a cell that does not parse and counts exactly the cells
\* that parse (nan parses); for min and max, the value is NaN when the first
\* such cell is NaN, and otherwise the least, or greatest, of the cells that
\* are not NaN.
C13_MinMaxOverNumericCells ==
    \A c \in FilterColumns, name \in {"MIN", "MAX"} :
        AggregateCall(c, name) =>
            LET I     == NumericCells(passed, c)
                first == CHOOSE i \in I : \A j \in I : i <= j
                J     == {i \in I : CellNumber(passed, c, i).cls # "nan"}
            IN  /\ CountsNumericCells(c)
                /\ I # {} =>
                      IF CellNumber(passed, c, first).cls = "nan"
                      THEN ret.value.cls = "nan"
                      ELSE IF name = "MIN"
                      THEN LeastOf(ret.value, passed, c, J)
                      ELSE GreatestOf(ret.value, passed, c, J)

\* a cell that does not parse stands before the one that does
C13_Witness ==
    /\ AggregateCall(<<"a">>, "MAX")
    /\ Len(passed) = 2
    /\ passed[1][<<"a">>] = <<"x">>
    /\ passed[2][<<"a">>] = <<"1", "0">>
    /\ ret.kind = "result"
    /\ ret.count = 1
    /\ SameFloat(ret.value, Fin(10, 1))

\* ----------------------------------------------------------------------- C14
RECURSIVE CellSum(_, _, _)
\* the sum of the numbers in the cells I of column c, added in row order
CellSum(rs, c, I) ==
    IF I = {} THEN Fin(0, 1)
    ELSE LET last == CHOOSE i \in I : \A j \in I : j <= i
         IN  NumAdd(CellSum(rs, c, I \ {last}), CellNumber(rs, c, last))

\* x divided by the positive integer n
DividedBy(x, n) == IF x.cls = "fin" THEN Fin(x.num, x.den * n) ELSE NaN

\* x lies between the least and the greatest of the cells I, inclusive
BetweenLeastAndGreatest(x, rs, c, I) ==
    \E lo \in I, hi \in I :
        /\ LeastOf(CellNumber(rs, c, lo), rs, c, I)
        /\ GreatestOf(CellNumber(rs, c, hi), rs, c, I)
        /\ NumLessOrEqual(CellNumber(rs, c, lo), x)
        /\ NumLessOrEqual(x, CellNumber(rs, c, hi))

ValidAggregationOn(c) ==
    /\ op = "aggregate_data"
    /\ arg # None
    /\ HasEq(arg)
    /\ Strip(LeftOfFirstEq(arg)) = c
    /\ Lower(Strip(RightOfFirstEq(arg))) \in SupportedOperations

\* C15: for a valid aggregation on a column of the first row, or on an empty
\* row list, aggregate_data returns None exactly when the list is empty or no
\* cell of the column parses as a number; a returned result has count >= 1
\* and a value.
C15_NoneIffNothingNumeric ==
    \A c \in FilterColumns :
        (ValidAggregationOn(c) /\ (passed = <<>> \/ c \in DOMAIN passed[1])) =>
            /\ ret.kind \in {"none", "result"}
            /\ ret.kind = "none" <=> (passed = <<>> \/ NumericCells(passed, c) = {})
            /\ ret.kind = "result" => (ret.count >= 1 /\ ret.value.cls \in {"fin", "nan"})

\* a whitespace-only cell and a non-numeric cell: nothing to aggregate
C15_Witness ==
    /\ ValidAggregationOn(<<"a">>)
    /\ Len(passed) = 2
    /\ passed[1][<<"a">>] = <<" ">>
    /\ passed[2][<<"a">>] = <<"x">>
    /\ ret.kind = "none"

\* ----------------------------------------------------------------------- C16
\* C16: aggregate_data on a non-empty row list with a well-formed aggregation
\* whose column is not a key of the first row raises the "column not found"
\* error naming the column and listing the first row's columns sorted.
C16_UnknownAggregationColumnRaises ==
    \A c \in FilterColumns :
        (ValidAggregationOn(c) /\ passed # <<>> /\ c \notin DOMAIN passed[1])
            => /\ ret.kind = "error"
               /\ ret.type = "ValueError"
               /\ ret.msg.text = "ColumnNotFound"
               /\ ret.msg.shown = c
               /\ ret.msg.listed = SortedStrings(DOMAIN passed[1] \ {None})

\* ----------------------------------------------------------------------- C17
\* the string violates the aggregation grammar column=operation
MalformedAggregation(s) ==
    \/ s = None
    \/ ~HasEq(s)
    \/ Blank(LeftOfFirstEq(s))
    \/ Lower(Strip(RightOfFirstEq(s))) \notin SupportedOperations

\* C17: aggregate_data raises a malformed-expression error for every string
\* that violates the aggregation grammar, whatever row list it is given, and
\* never returns None or a result for such a string.
C17_MalformedAggregationAlwaysRaises ==
    (op = "aggregate_data" /\ MalformedAggregation(arg))
        => /\ ret.kind = "error"
           /\ ret.type = "ValueError"
           /\ ret.msg.text \in {"EmptyAggString", "InvalidAggFormat",
                                "AggColumnMissing", "UnsupportedAggOperation"}

\* ----------------------------------------------------------------------- C18
\* C18: filter_data with a condition on a column of the dataset returns a row
\* list whatever cells are null, and no returned row has a null cell in that
\* column, for each of =, > and < and each value.
C18_NullCellNeverReturned ==
    \A c \in FilterColumns, o \in SeqToSet(FilterOperator), v \in FilterValues :
        (/\ op = "filter_data"
         /\ arg = c \o o \o v
         /\ data # <<>>
         /\ c \in DOMAIN data[1])
            => /\ ret.kind = "rows"
               /\ \A r \in RowSet(ret.rows) : c \in DOMAIN r /\ r[c] # None

\* a row with a null cell and a row with an empty cell: "a<1" returns the
\* second only
C18_Witness ==
    /\ op = "filter_data"
    /\ arg = <<"a", "<", "1">>
    /\ Len(data) = 2
    /\ data[1][<<"a">>] = None
    /\ data[2][<<"a">>] = <<>>
    /\ ret.kind = "rows"
    /\ ret.rows = <<data[2]>>

\* ----------------------------------------------------------------------- C19
\* r is d with some rows left out: the rows of r are rows of d taken at
\* increasing positions
IsSubsequence(r, d) ==
    \E f \in [1..Len(r) -> 1..Len(d)] :
        /\ \A k \in 1..Len(r) : r[k] = d[f[k]]
        /\ \A j, k \in 1..Len(r) : j < k => f[j] < f[k]

\* C19: every row list filter_data returns is a subsequence of the dataset:
\* each returned row equals a dataset row, no dataset row is returned twice,
\* and the returned rows are in dataset order.
C19_ResultIsSubsequence ==
    (op = "filter_data" /\ ret.kind = "rows") => IsSubsequence(ret.rows, data)

\* two different rows, both returned, in dataset order
C19_Witness ==
    /\ op = "filter_data"
    /\ arg = <<"a", ">", "1">>
    /\ Len(data) = 2
    /\ data[1][<<"a">>] = <<"1", "0">>
    /\ data[2][<<"a">>] = <<"x">>
    /\ data[1][<<"n">>] # data[2][<<"n">>]
    /\ ret.kind = "rows"
    /\ ret.rows = data

\* ----------------------------------------------------------------------- C20
\* C20: a call of filter_data or aggregate_data leaves the processor's
\* dataset as it was, and leaves the row list given to aggregate_data as it
\* was given, whether the call returns rows, a result or None, or raises.
C20_CallsLeaveRowsUnchanged ==
    [][/\ op' = "filter_data" => data' = data
       /\ op' = "aggregate_data" => (data' = data /\ rows' = passed')]_vars

\* the processor's own rows were given and the call raised
C20_Witness ==
    /\ op = "aggregate_data"
    /\ ret.kind = "error"
    /\ Len(passed) = 2
    /\ rows = passed
    /\ data = passed

\* ======================================================= claims about sorting
\* the call was sort_data(passed, "<c>=<direction>") with a well-formed
\* string, a non-empty row list and c a column of its first row
SortCall(c, direction) ==
    /\ op = "sort_data"
    /\ arg # None
    /\ HasEq(arg)
    /\ Strip(LeftOfFirstEq(arg)) = c
    /\ Lower(Strip(RightOfFirstEq(arg))) = direction
    /\ passed # <<>>
    /\ c \in DOMAIN passed[1]

\* r holds exactly the rows of d: the rows of d in some order
IsPermutation(r, d) ==
    /\ Len(r) = Len(d)
    /\ \E p \in [1..Len(d) -> 1..Len(d)] :
          /\ \A i, j \in 1..Len(d) : i # j => p[i] # p[j]
          /\ \A i \in 1..Len(d) : r[i] = d[p[i]]

\* a cell that is null, empty or whitespace only
NoValue(cell) == cell = None \/ Blank(cell)

\* a numeric column: some cell holds a number, and every cell holds a number
\* or no value
NumericSortColumn(rs, c) ==
    /\ \E i \in 1..Len(rs) : ~NoValue(rs[i][c])
    /\ \A i \in 1..Len(rs) : NoValue(rs[i][c]) \/ ParseFloat(rs[i][c]).cls = "fin"

\* the number a cell of a numeric column counts as
NumberOf(cell) == IF NoValue(cell) THEN Fin(0, 1) ELSE ParseFloat(cell)

\* the text a cell of a text column counts as
TextOf(cell) == IF cell = None THEN <<>> ELSE Lower(cell)

\* row x must not come after row y in ascending order
StrictlyBelow(x, y, rs, c) ==
    IF NumericSortColumn(rs, c)
    THEN NumLess(NumberOf(x[c]), NumberOf(y[c]))
    ELSE StrLess(TextOf(x[c]), TextOf(y[c]))

\* ----------------------------------------------------------------------- C21
\* C21: sort_data(rows, "col=asc") returns exactly the input rows ordered
\* non-decreasingly by col, and "col=desc" returns them ordered
\* non-increasingly: by lower-cased text with null as the empty string in a
\* text column, by number with a null or empty cell as 0.0 in a numeric one.
C21_SortedPermutation ==
    \A c \in {<<"a">>, <<"n">>}, direction \in SeqToSet(SortDirection) :
        SortCall(c, direction) =>
            /\ ret.kind = "rows"
            /\ IsPermutation(ret.rows, passed)
            /\ \A i, j \in 1..Len(ret.rows) :
                  i < j =>
                      IF direction = <<"a", "s", "c">>
                      THEN ~StrictlyBelow(ret.rows[j], ret.rows[i], passed, c)
                      ELSE ~StrictlyBelow(ret.rows[i], ret.rows[j], passed, c)

\* 10 before 2 in the file: as numbers, 2 comes first
C21_Witness ==
    /\ SortCall(<<"a">>, <<"a", "s", "c">>)
    /\ Len(passed) = 2
    /\ passed[1][<<"a">>] = <<"1", "0">>
    /\ passed[2][<<"a">>] = <<"2">>
    /\ ret.kind = "rows"
    /\ ret.rows = <<passed[2], passed[1]>>

\* ----------------------------------------------------------------------- C22
\* rows x and y have equal keys
SameKey(x, y, rs, c) == ~StrictlyBelow(x, y, rs, c) /\ ~StrictlyBelow(y, x, rs, c)

\* C22: sorting the result of sort_data(ds, "col=asc") again with "col=asc"
\* returns it unchanged, and in the result of a sort the rows with equal keys
\* are in the order they had in the input.
C22_IdempotentAndStable ==
    \A c \in {<<"a">>, <<"n">>} :
        SortCall(c, <<"a", "s", "c">>) =>
            /\ ret.kind = "rows"
            /\ pc = "again" => ret.rows = passed
            /\ \A x \in RowSet(passed) :
                  SelectSeq(ret.rows, LAMBDA y : SameKey(x, y, passed, c))
                      = SelectSeq(passed, LAMBDA y : SameKey(x, y, passed, c))

\* the first sort moved a row, the second moved none
C22_Witness ==
    /\ pc = "again"
    /\ SortCall(<<"a">>, <<"a", "s", "c">>)
    /\ Len(data) = 2
    /\ passed = <<data[2], data[1]>>
    /\ data[1] # data[2]
    /\ ret.kind = "rows"
    /\ ret.rows = passed

\* ----------------------------------------------------------------------- C23
\* C23: sort_data on a non-empty dataset with a well-formed sort string whose
\* column is not a column of the dataset raises a ValueError saying that the
\* named column was not found, with the dataset's columns sorted, as the
\* column check of filter_data and aggregate_data does.
C23_UnknownSortColumnRaises ==
    \A c \in {<<"a">>, <<"n">>, <<"z">>}, direction \in SeqToSet(SortDirection) :
        (/\ op = "sort_data"
         /\ arg # None
         /\ HasEq(arg)
         /\ Strip(LeftOfFirstEq(arg)) = c
         /\ Lower(Strip(RightOfFirstEq(arg))) = direction
         /\ passed # <<>>
         /\ c \notin SeqToSet(file.header))
            => /\ ret.kind = "error"
               /\ ret.type = "ValueError"
               /\ ret.msg.text = "ColumnNotFound"
               /\ ret.msg.shown = c
               /\ ret.msg.listed = SortedStrings(SeqToSet(file.header))

C23_Witness ==
    /\ op = "sort_data"
    /\ arg = <<"z", "=", "a", "s", "c">>
    /\ Len(passed) = 2
    /\ ret.kind = "error"
    /\ ret.msg.text = "ColumnNotFound"
    /\ ret.msg.shown = <<"z">>
    /\ ret.msg.listed = << <<"a">>, <<"n">> >>

\* ----------------------------------------------------------------------- C24
\* C24: sort_data given "<column>=<token>" with a non-blank column and a token
\* that is neither asc nor desc in any case raises the ValueError for an
\* unsupported sort direction, naming the token and listing asc and desc.
C24_UnsupportedDirection ==
    (/\ op = "sort_data"
     /\ arg # None
     /\ HasEq(arg)
     /\ ~Blank(LeftOfFirstEq(arg))
     /\ Lower(Strip(RightOfFirstEq(arg))) \notin {<<"a", "s", "c">>, <<"d", "e", "s", "c">>})
        => ret = Raise("ValueError", "UnsupportedSortDirection",
                       Strip(RightOfFirstEq(arg)),
                       << <<"a", "s", "c">>, <<"d", "e", "s", "c">> >>)

C24_Witness ==
    /\ op = "sort_data"
    /\ arg = <<"a", "=", "u", "p">>
    /\ passed # <<>>
    /\ ret.kind = "error"
    /\ ret.msg.text = "UnsupportedSortDirection"
    /\ ret.msg.shown = <<"u", "p">>

\* ======================================== claims about the command-line program
\* the columns of the file given to the program
ColumnsOfFile(f) == IF f.exists THEN SeqToSet(f.header) ELSE {}

\* an expression was given: the option is present and its string is not empty
\* (the program takes an empty string as no expression)
Given(s) == s # None /\ s # <<>>

\* the --where expression is malformed, or names a column the file has not
BadWhere(w, f) ==
    /\ Given(w)
    /\ LET cond == FilterCondition_from_string(w)
       IN  \/ cond.kind = "error"
           \/ cond.kind = "cond" /\ f.exists /\ cond.column \notin ColumnsOfFile(f)

\* the --aggregate expression is malformed, or names a column the file has not
BadAggregate(g, f) ==
    /\ Given(g)
    /\ \/ MalformedAggregation(g)
       \/ f.exists /\ Strip(LeftOfFirstEq(g)) \notin ColumnsOfFile(f)

\* the --order-by expression is malformed, or names a column the file has not
BadOrder(o, f) ==
    /\ Given(o)
    /\ LET sort_spec == SortSpec_from_string(o)
       IN  \/ sort_spec.kind = "error"
           \/ f.exists /\ sort_spec.column \notin ColumnsOfFile(f)

\* ----------------------------------------------------------------------- C25
\* C25: a run of the program given a file path ends with a non-zero exit code
\* whenever the file is missing or the --where, --aggregate or --order-by
\* expression is malformed or names a column the file does not have.
C25_ErrorsExitNonZero ==
    (/\ op = "main"
     /\ arg.file # NoFileArgument
     /\ \/ ~arg.file.exists
        \/ BadWhere(arg.where, arg.file)
        \/ BadAggregate(arg.aggregate, arg.file)
        \/ BadOrder(arg.order_by, arg.file))
        => ret.code # 0

\* ---------------------------------------------------------------- C26
\* load_data has just filled the dataset from the file
Loaded == op = "load_data" /\ pc = "loaded"

\* the lines of the file that hold at least one field, in file order
FieldLines(f) == SelectSeq(f.lines, LAMBDA l : l # <<>>)

\* row r is what line l gives under the header h: every header column is a
\* key, holding the field at the column's place or null where the line has
\* none; the overflow key is the only other key, present exactly when the line
\* is longer than the header, and holds the surplus fields
RowOfLine(r, l, h) ==
    /\ SeqToSet(h) \subseteq DOMAIN r
    /\ DOMAIN r \subseteq SeqToSet(h) \cup {RestKey}
    /\ \A j \in 1..Len(h) : r[h[j]] = (IF j <= Len(l) THEN l[j] ELSE None)
    /\ RestKey \in DOMAIN r <=> Len(l) > Len(h)
    /\ RestKey \in DOMAIN r => r[RestKey] = SubSeq(l, Len(h) + 1, Len(l))

\* C26 as stated, every line after the header being a data line: after
\* load_data the dataset has one row per line of the file, in file order, each
\* row with every header column as a key (null where the line was short) and
\* no other key but the overflow key, present only for a line longer than the
\* header and holding its surplus fields; a header-only file gives no row.
C26_AsStated ==
    Loaded =>
        /\ Len(data) = Len(file.lines)
        /\ \A i \in 1..Len(data) : RowOfLine(data[i], file.lines[i], file.header)

\* C26: after load_data the dataset has one row per line of the file that is
\* not blank, in file order (a blank line gives no row); every row has every
\* header column as a key, null where the line had fewer fields than the
\* header, and no other key but the overflow key, which is present only when
\* the line had more fields than the header and then holds the surplus
\* fields; a header-only file gives an empty dataset.
C26_RowPerFieldLine ==
    Loaded =>
        LET ls == FieldLines(file)
        IN  /\ Len(data) = Len(ls)
            /\ \A i \in 1..Len(data) : RowOfLine(data[i], ls[i], file.header)
            /\ file.lines = <<>> => data = <<>>

\* a file with a line shorter than the header and a line longer than it
C26_Witness ==
    /\ Loaded
    /\ Len(data) = 2
    /\ \E i, j \in 1..2 :
        /\ Len(file.lines[i]) < Len(file.header)
        /\ data[i][file.header[2]] = None
        /\ Len(file.lines[j]) > Len(file.header)
        /\ data[j][RestKey] # <<>>

\* ---------------------------------------------------------------- C27
\* the text s parses as a number
ParsesAsNumber(s) == ParseFloat(s) # NoFloat

\* the numbers of cell and v stand in the relation o (equality within 1e-9)
NumericallyRelated(cell, o, v) ==
    LET x == ParseFloat(cell)
        y == ParseFloat(v)
    IN  CASE o = <<"=">> -> AbsDiffBelowEps(x, y)
          [] o = <<">">> -> NumLess(y, x)
          [] o = <<"<">> -> NumLess(x, y)

\* the raw strings cell and v stand in the relation o
TextuallyRelated(cell, o, v) ==
    CASE o = <<"=">> -> cell = v
      [] o = <<">">> -> StrLess(v, cell)
      [] o = <<"<">> -> StrLess(cell, v)

OperatorPlaces(s) == {i \in 1..Len(s) : s[i] \in OperatorChars}

\* the first place of the character ch in s (ch occurs in s)
FirstPlace(s, ch) ==
    CHOOSE i \in 1..Len(s) : s[i] = ch /\ \A j \in 1..(i - 1) : s[j] # ch

\* the place the priority =, >, < gives: the first = if s has one, otherwise
\* the first >, otherwise the first <
PriorityPlace(s) ==
    IF \E i \in 1..Len(s) : s[i] = "=" THEN FirstPlace(s, "=")
    ELSE IF \E i \in 1..Len(s) : s[i] = ">" THEN FirstPlace(s, ">")
    ELSE FirstPlace(s, "<")

\* C28: a condition string without compound token that holds more than one of
\* the characters =, >, < is split by operator priority and not by position:
\* at its first = if it has one, otherwise at its first >, otherwise at its
\* first <; the parts around that place, trimmed, are column and value (an
\* empty part is an error); so "a>b=c" is column "a>b", EQUAL, value "c".
C28_SplitByPriority ==
    (/\ op = "FilterCondition.from_string"
     /\ arg # None
     /\ ~HasCompoundToken(arg)
     /\ Cardinality(OperatorPlaces(arg)) > 1)
        => LET p == PriorityPlace(arg)
           IN  IF Blank(SubSeq(arg, 1, p - 1)) \/ Blank(From(arg, p + 1))
               THEN ret.kind = "error"
               ELSE ret = ParsedAs(arg, p)

\* "a>b=c": the > stands first, the split is at the =
C28_Witness ==
    /\ op = "FilterCondition.from_string"
    /\ arg = <<"a", ">", "b", "=", "c">>
    /\ ret = [kind |-> "cond", column |-> <<"a", ">", "b">>,
              operator |-> "EQUAL", value |-> <<"c">>]

\* ---------------------------------------------------------------- C29
\* the rows of the dataset whose cell in column c is the empty string
EmptyCellRows(c) == {r \in RowSet(data) : c \in DOMAIN r /\ r[c] = <<>>}

\* C29: a row whose cell in the filtered column is the empty string is
\* returned by filter_data("col<v") for every valid value v, numeric or not,
\* and is never returned by "col>v" or "col=v".
C29_EmptyCellOnlyBelow ==
    \A c \in FilterColumns, o \in SeqToSet(FilterOperator), v \in FilterValues :
        (op = "filter_data" /\ arg = c \o o \o v /\ EmptyCellRows(c) # {})
            => /\ ret.kind = "rows"
               /\ \A r \in EmptyCellRows(c) : r \in RowSet(ret.rows) <=> o = <<"<">>

\* "a<nan" over an empty cell and the cell "1": the value parses as a number,
\* the empty cell does not and is returned, the cell "1" is not below nan
C29_Witness ==
    /\ op = "filter_data"
    /\ arg = <<"a", "<", "n", "a", "n">>
    /\ Len(data) = 2
    /\ data[1][<<"a">>] = <<>>
    /\ data[2][<<"a">>] = <<"1">>
    /\ ret.kind = "rows"
    /\ ret.rows = <<data[1]>>

\* ---------------------------------------------------------------- C30
\* the rows filter_data(c + o2 + v) returns on the dataset, where the call
\* made was filter_data(c + o + v): the rows it returned, or the rows the
\* call with the other operator returns on the same dataset
ReturnedWith(c, o2, v, o) ==
    IF o2 = o THEN ret.rows ELSE filter_data(data, c \o o2 \o v).rows

\* the operators whose call returns the row r
ReturningOperators(r, c, v, o) ==
    {o2 \in SeqToSet(FilterOperator) : r \in RowSet(ReturnedWith(c, o2, v, o))}

\* the values that are integers or text: not the text of NaN
PlainValues == {v \in FilterValues : ParseFloat(v) # NaN}

\* C30 as stated: for every existing column col and every valid value v,
\* integer-valued or textual, each dataset row whose cell in col is not null
\* is returned by exactly one of filter_data("col<v"), filter_data("col=v")
\* and filter_data("col>v"), and a row whose cell is null by none of them.
C30_AsStated ==
    \A c \in FilterColumns, o \in SeqToSet(FilterOperator), v \in PlainValues :
        FilterCall(c, o, v) =>
            \A r \in RowSet(data) :
                c \in DOMAIN r =>
                    Cardinality(ReturningOperators(r, c, v, o))
                        = (IF r[c] = None THEN 0 ELSE 1)

\* cell and v are compared as numbers, and one of the numbers is NaN
ComparedWithNaN(cell, v) ==
    /\ ParsesAsNumber(cell)
    /\ ParsesAsNumber(v)
    /\ (ParseFloat(cell) = NaN \/ ParseFloat(v) = NaN)

\* cell and v are compared as numbers that differ by less than 1e-9 and are
\* not equal
WithinEpsNotEqual(cell, v) ==
    /\ ParsesAsNumber(cell)
    /\ ParsesAsNumber(v)
    /\ AbsDiffBelowEps(ParseFloat(cell), ParseFloat(v))
    /\ ~NumEqual(ParseFloat(cell), ParseFloat(v))

\* C30 (amended): for every existing column col and every valid value v,
\* a dataset row whose cell in col is null is returned by none of
\* filter_data("col<v"), filter_data("col=v") and filter_data("col>v"), and so
\* is a row whose cell is compared with v as a number when one of the two
\* numbers is NaN; every other row is returned by exactly one of the three,
\* unless cell and v are finite numbers that differ by less than 1e-9 without
\* being equal.
C30_Trichotomy ==
    \A c \in FilterColumns, o \in SeqToSet(FilterOperator), v \in FilterValues :
        FilterCall(c, o, v) =>
            \A r \in RowSet(data) :
                c \in DOMAIN r =>
                    LET n == Cardinality(ReturningOperators(r, c, v, o))
                    IN  IF r[c] = None THEN n = 0
                        ELSE IF ComparedWithNaN(r[c], v) THEN n = 0
                        ELSE IF WithinEpsNotEqual(r[c], v) THEN TRUE
                        ELSE n = 1

\* "a=1" over the cells "1.0" and "x": the first row is returned by = alone,
\* as a number, the second by > alone, as text
C30_Witness ==
    /\ FilterCall(<<"a">>, <<"=">>, <<"1">>)
    /\ Len(data) = 2
    /\ data[1][<<"a">>] = <<"1", ".", "0">>
    /\ data[2][<<"a">>] = <<"x">>
    /\ ret.rows = <<data[1]>>
    /\ ReturningOperators(data[1], <<"a">>, <<"1">>, <<"=">>) = {<<"=">>}
    /\ ReturningOperators(data[2], <<"a">>, <<"1">>, <<"=">>) = {<<">">>}

====
